---- MODULE Spec2Model ----
(***************************************************************************)
(* Title extraction, filename formatting, process_pdf and the batch loop   *)
(* of main in scripts/update_pdf_file_names.py.                            *)
(*                                                                         *)
(* A string is a sequence of characters; a character is an atom written    *)
(* as a TLA+ string ("a", " ", "\t"), with named atoms for the non-ASCII   *)
(* characters the code can meet ("NBSP", "E_ACUTE", "KELVIN", "ALEF").     *)
(* Scores are kept in units of 1/200 (0.9 = 180, 0.05 = 10) and font sizes *)
(* in tenths of a point, so that 0.7 + size/20 is exact.                   *)
(***************************************************************************)
EXTENDS Integers, Sequences, FiniteSets, TLC

VARIABLES
    chars,        \* page.chars: the glyph list of the page
    words,        \* page.extract_words(): the word list of the page
    text,         \* the raw text handed to extract_title
    pc,           \* position inside extract_title
    results,      \* the list `results` of extract_title
    ret,          \* what extract_title returned (NotReturned before it returns)
    calls,        \* the extractors extract_title has called, in order
    f_in,         \* format_filename: the argument
    f_out,        \* format_filename(f_in)
    f_again,      \* format_filename of f_out without its ".pdf"
    f_pc,         \* position of the formatting run
    t_in,         \* is_likely_title: the argument
    t_out,        \* is_likely_title(t_in)
    t_pc,         \* position of the classifier run
    fs,           \* the file system: path |-> what the file holds
    fs0,          \* the file system when the run began
    proc,         \* the invocations of process_pdf: where each one is, its locals
    output_path,  \* main: the output directory
    num_files,    \* main: args.num_files
    pdf_files,    \* main: the list pdf_files
    idx,          \* main: the position of the for loop in pdf_files
    log_entries,  \* main: the list log_entries
    processed,    \* main: the counter processed
    skipped,      \* main: the counter skipped
    m_pc          \* position inside main

batch_vars == <<fs, fs0, proc, output_path, num_files, pdf_files, idx,
                log_entries, processed, skipped, m_pc>>

vars == <<chars, words, text, pc, results, ret, calls,
          f_in, f_out, f_again, f_pc, t_in, t_out, t_pc,
          fs, fs0, proc, output_path, num_files, pdf_files, idx,
          log_entries, processed, skipped, m_pc>>

\* No batch is run.
BatchIdle ==
    /\ fs = <<>> /\ fs0 = <<>> /\ proc = <<>>
    /\ output_path = "" /\ num_files = 0 /\ pdf_files = <<>> /\ idx = 0
    /\ log_entries = <<>> /\ processed = 0 /\ skipped = 0 /\ m_pc = "idle"

-----------------------------------------------------------------------------
(* Characters                                                              *)

LowerAscii == {"a","b","c","d","e","f","g","h","i","j","k","l","m",
               "n","o","p","q","r","s","t","u","v","w","x","y","z"}

UpperAscii == {"A","B","C","D","E","F","G","H","I","J","K","L","M",
               "N","O","P","Q","R","S","T","U","V","W","X","Y","Z"}

AsciiDigits == {"0","1","2","3","4","5","6","7","8","9"}

\* Letters outside ASCII: e-acute in both cases, the Kelvin sign (U+212A),
\* capital I with dot above (U+0130) and the Hebrew letter alef.
OtherLetters == {"e_acute", "E_ACUTE", "KELVIN", "I_DOT", "ALEF"}

\* What str.isspace(), str.strip(), str.split() and the pattern \s treat as
\* whitespace: the ASCII ones and, among others, the no-break space.
Whitespace == {" ", "\t", "\n", "\r", "\f", "NBSP"}

IsSpace(c) == c \in Whitespace

\* str.isalpha() of one character.
IsAlpha(c) == c \in LowerAscii \cup UpperAscii \cup OtherLetters

\* The pattern \d on a str: any Unicode decimal digit.
IsDigit(c) == c \in AsciiDigits \cup {"ARABIC_5"}

UpperToLower ==
    [c \in UpperAscii |->
        CASE c = "A" -> "a" [] c = "B" -> "b" [] c = "C" -> "c" [] c = "D" -> "d"
          [] c = "E" -> "e" [] c = "F" -> "f" [] c = "G" -> "g" [] c = "H" -> "h"
          [] c = "I" -> "i" [] c = "J" -> "j" [] c = "K" -> "k" [] c = "L" -> "l"
          [] c = "M" -> "m" [] c = "N" -> "n" [] c = "O" -> "o" [] c = "P" -> "p"
          [] c = "Q" -> "q" [] c = "R" -> "r" [] c = "S" -> "s" [] c = "T" -> "t"
          [] c = "U" -> "u" [] c = "V" -> "v" [] c = "W" -> "w" [] c = "X" -> "x"
          [] c = "Y" -> "y" [] c = "Z" -> "z"]

\* str.lower() of one character: a string, since U+0130 lowers to two
\* characters ("i" and the combining dot above).
LowerChar(c) ==
    IF c \in UpperAscii THEN <<UpperToLower[c]>>
    ELSE IF c = "E_ACUTE" THEN <<"e_acute">>
    ELSE IF c = "KELVIN" THEN <<"k">>
    ELSE IF c = "I_DOT" THEN <<"i", "COMB_DOT">>
    ELSE <<c>>

RECURSIVE Lower(_)
\* str.lower(): each half lowered, so that a long string nests only a few calls.
Lower(s) ==
    IF s = <<>> THEN <<>>
    ELSE IF Len(s) = 1 THEN LowerChar(s[1])
    ELSE LET h == Len(s) \div 2
         IN  Lower(SubSeq(s, 1, h)) \o Lower(SubSeq(s, h + 1, Len(s)))

SetMin(S) == CHOOSE x \in S : \A y \in S : x <= y
SetMax(S) == CHOOSE x \in S : \A y \in S : y <= x

\* The positions of the characters of s that are not whitespace.
Inked(s) == {i \in 1..Len(s) : ~IsSpace(s[i])}

\* str.strip()
Strip(s) == IF Inked(s) = {} THEN <<>> ELSE SubSeq(s, SetMin(Inked(s)), SetMax(Inked(s)))

Min(a, b) == IF a < b THEN a ELSE b
Max(a, b) == IF a > b THEN a ELSE b

\* s[:n]
Prefix(s, n) == SubSeq(s, 1, IF Len(s) < n THEN Len(s) ELSE n)

-----------------------------------------------------------------------------
(* format_filename                                                         *)

\* The characters re.sub(r"[^a-z0-9\s]", "", text) keeps.
KeptByFormat(c) == c \in LowerAscii \/ c \in AsciiDigits \/ IsSpace(c)

\* re.sub(r"\s+", " ", text): every maximal run of whitespace becomes " "
\* (the first character of the run stays, as a space; the others go).
CollapseSpaces(s) ==
    LET keep == SelectSeq([i \in 1..Len(s) |-> i],
                          LAMBDA i : ~IsSpace(s[i]) \/ i = 1 \/ ~IsSpace(s[i - 1]))
    IN  [k \in 1..Len(keep) |-> IF IsSpace(s[keep[k]]) THEN " " ELSE s[keep[k]]]

\* str.replace(" ", "_")
SpacesToUnderscores(s) == [i \in 1..Len(s) |-> IF s[i] = " " THEN "_" ELSE s[i]]

PdfSuffix == <<".", "p", "d", "f">>

\* format_filename with the underscore among the characters it keeps.
FormatKeepsUnderscore(t) ==
    LET kept == SelectSeq(Lower(t), LAMBDA c : KeptByFormat(c) \/ c = "_")
    IN  SpacesToUnderscores(CollapseSpaces(Strip(kept))) \o PdfSuffix

\* format_filename without the call of lower(), keeping letters of both cases.
FormatWithoutLower(t) ==
    LET kept == SelectSeq(t, LAMBDA c : c \in LowerAscii \cup UpperAscii
                                          \/ c \in AsciiDigits \/ IsSpace(c))
    IN  SpacesToUnderscores(CollapseSpaces(Strip(kept))) \o PdfSuffix

format_filename(t) ==
    LET lowered == Lower(t)
        kept == SelectSeq(lowered, KeptByFormat)
        stripped == Strip(kept)
    IN  SpacesToUnderscores(CollapseSpaces(stripped)) \o PdfSuffix

\* The output without its trailing ".pdf".
Desuffix(n) == SubSeq(n, 1, Len(n) - 4)

-----------------------------------------------------------------------------
(* is_likely_title                                                         *)

\* s has the literal lit at position i.
HasLit(s, i, lit) == i + Len(lit) - 1 <= Len(s) /\ SubSeq(s, i, i + Len(lit) - 1) = lit

\* The first position from i on whose character is not in class (Len(s) + 1
\* when there is none): where a greedy \s*, \d+ or [a-z]+ started at i stops.
RunEnd(s, i, class) ==
    LET stops == {j \in i..Len(s) : s[j] \notin class}
    IN  IF stops = {} THEN Max(i, Len(s) + 1) ELSE SetMin(stops)

AllDigits == AsciiDigits \cup {"ARABIC_5"}

\* ^word\s+\d+ for the words page, chapter and section.
MatchWordNumber(s, word) ==
    /\ HasLit(s, 1, word)
    /\ LET j == RunEnd(s, Len(word) + 1, Whitespace)
       IN  j > Len(word) + 1 /\ j <= Len(s) /\ IsDigit(s[j])

\* ^\d+$
MatchAllDigits(s) == Len(s) >= 1 /\ RunEnd(s, 1, AllDigits) = Len(s) + 1

\* ^\d+\s*of\s*\d+
MatchNOfM(s) ==
    LET j == RunEnd(s, 1, AllDigits)
        k == RunEnd(s, j, Whitespace)
        m == RunEnd(s, k + 2, Whitespace)
    IN  j > 1 /\ HasLit(s, k, <<"o", "f">>) /\ m <= Len(s) /\ IsDigit(s[m])

DateSeparators == {"-", "/"}

\* ^\d{1,2}[-/]\d{1,2}[-/]\d{2,4}
MatchDate(s) ==
    LET j == RunEnd(s, 1, AllDigits)
        k == RunEnd(s, j + 1, AllDigits)
        m == RunEnd(s, k + 1, AllDigits)
    IN  /\ j - 1 \in {1, 2} /\ j <= Len(s) /\ s[j] \in DateSeparators
        /\ k - (j + 1) \in {1, 2} /\ k <= Len(s) /\ s[k] \in DateSeparators
        /\ m - (k + 1) >= 2

\* ^[a-z]+@[a-z]+\.[a-z]+
MatchEmail(s) ==
    LET j == RunEnd(s, 1, LowerAscii)
        k == RunEnd(s, j + 1, LowerAscii)
    IN  /\ j > 1 /\ j <= Len(s) /\ s[j] = "@"
        /\ k > j + 1 /\ k <= Len(s) /\ s[k] = "."
        /\ k + 1 <= Len(s) /\ s[k + 1] \in LowerAscii

\* ^https?://
MatchUrl(s) ==
    \/ HasLit(s, 1, <<"h","t","t","p",":","/","/">>)
    \/ HasLit(s, 1, <<"h","t","t","p","s",":","/","/">>)

\* ^www\.
MatchWww(s) == HasLit(s, 1, <<"w","w","w",".">>)

W_page == <<"p","a","g","e">>
W_chapter == <<"c","h","a","p","t","e","r">>
W_section == <<"s","e","c","t","i","o","n">>
W_abstract == <<"a","b","s","t","r","a","c","t">>
W_introduction == <<"i","n","t","r","o","d","u","c","t","i","o","n">>
W_conclusion == <<"c","o","n","c","l","u","s","i","o","n">>
W_references == <<"r","e","f","e","r","e","n","c","e","s">>
W_bibliography == <<"b","i","b","l","i","o","g","r","a","p","h","y">>

\* ^abstract$, ^introduction$, ^conclusion$, ^references$, ^bibliography$
HeadingWords == {W_abstract, W_introduction, W_conclusion, W_references, W_bibliography}

\* Some pattern of skip_patterns is found in s by re.search.
MatchesSkipPattern(s) ==
    \/ MatchWordNumber(s, W_page)
    \/ MatchAllDigits(s)
    \/ MatchNOfM(s)
    \/ MatchWordNumber(s, W_chapter)
    \/ MatchWordNumber(s, W_section)
    \/ MatchDate(s)
    \/ MatchEmail(s)
    \/ MatchUrl(s)
    \/ MatchWww(s)
    \/ s \in HeadingWords

\* len(text.split()): the number of places where a token starts.
CountTokens(s) ==
    Cardinality({i \in 1..Len(s) : ~IsSpace(s[i]) /\ (i = 1 \/ IsSpace(s[i - 1]))})

\* sum(c.isalpha() for c in text)
CountAlpha(s) == Cardinality({i \in 1..Len(s) : IsAlpha(s[i])})

MinWords == 3
MaxTitleChars == 200

\* is_likely_title without the loop over skip_patterns.
is_likely_title_no_skip(t) ==
    IF CountTokens(t) < MinWords THEN FALSE
    ELSE IF Len(t) > MaxTitleChars THEN FALSE
    ELSE IF 2 * CountAlpha(t) < Len(t) THEN FALSE
    ELSE TRUE

is_likely_title(t) ==
    LET text_lower == Strip(Lower(t))
    IN  IF MatchesSkipPattern(text_lower) THEN FALSE
        ELSE IF CountTokens(t) < MinWords THEN FALSE
        ELSE IF Len(t) > MaxTitleChars THEN FALSE
        \* alpha_ratio < 0.5, with alpha_ratio = alpha / len(text)
        ELSE IF 2 * CountAlpha(t) < Len(t) THEN FALSE
        ELSE TRUE

-----------------------------------------------------------------------------
(* TitleExtractionResult                                                    *)

\* An Optional[str]: <<>> is None, <<t>> is the string t.
NoTitle == <<>>
Some(t) == <<t>>

\* `if result.title`: the title is neither None nor the empty string.
HasTitle(r) == r.title # NoTitle /\ r.title[1] # <<>>

\* The explanation is kept as the list of its parts: the text the extractor
\* writes, then whatever is appended to it. A part is the text of an f-string
\* followed by the number it interpolates, if it has one.
TitleExtractionResult(title, method, score, explanation, sample) ==
    [kind |-> "TitleExtractionResult", title |-> title, method |-> method,
     score |-> score, explanation |-> <<explanation>>,
     original_text_sample |-> sample]

\* Python's None, where a function annotated to return a result returns it.
PyNone == [kind |-> "None"]

IsResult(r) == r.kind = "TitleExtractionResult"

SampleChars == 50

\* Scores, in units of 1/200.
Score_0_9 == 180
Score_0_7 == 140
Score_0_8 == 160
Score_0_6 == 120
Score_0_5 == 100
Score_0_1 == 20
Score_0_05 == 10

RECURSIVE SortedDesc(_)
\* sorted(keys, reverse=True) of a set of numbers.
SortedDesc(S) ==
    IF S = {} THEN <<>>
    ELSE LET m == CHOOSE x \in S : \A y \in S : y <= x
         IN  <<m>> \o SortedDesc(S \ {m})

RECURSIVE InsertByX0(_, _)
\* Insert g into a list sorted by x0 after every element whose x0 is not
\* larger: sorted() is stable.
InsertByX0(sorted, g) ==
    IF sorted = <<>> THEN <<g>>
    ELSE IF Head(sorted).x0 <= g.x0 THEN <<Head(sorted)>> \o InsertByX0(Tail(sorted), g)
    ELSE <<g>> \o sorted

RECURSIVE SortByX0(_)
\* sorted(items, key=lambda c: c['x0'])
SortByX0(items) ==
    IF items = <<>> THEN <<>>
    ELSE InsertByX0(SortByX0(SubSeq(items, 1, Len(items) - 1)), items[Len(items)])

RECURSIVE JoinTexts(_, _)
\* sep.join(item['text'] for item in items)
JoinTexts(items, sep) ==
    IF items = <<>> THEN <<>>
    ELSE IF Len(items) = 1 THEN items[1].text
    ELSE items[1].text \o sep \o JoinTexts(Tail(items), sep)

\* round(v, 1) of a coordinate kept in hundredths (no input of the model
\* lies exactly between two tenths).
Round1(v) == ((v + 5) \div 10) * 10

-----------------------------------------------------------------------------
(* extract_title_from_chars                                                *)

\* The text of the line of bucket `bucket` at rounded height y.
FontLineText(bucket, y) ==
    Strip(JoinTexts(SortByX0(SelectSeq(bucket, LAMBDA c : Round1(c.y0) = y)), <<>>))

RECURSIVE FirstTitleLine(_, _)
\* The first y of ys whose line is a likely title, as <<y>>; <<>> if none.
FirstTitleLine(bucket, ys) ==
    IF ys = <<>> THEN <<>>
    ELSE LET t == FontLineText(bucket, Head(ys))
         IN  IF t # <<>> /\ is_likely_title(t) THEN <<Head(ys)>>
             ELSE FirstTitleLine(bucket, Tail(ys))

\* The score without min(0.9, ...).
FontScoreUncapped(size) == Score_0_7 + size

\* The score with size / 10.0 for size / 20.0.
FontScorePerTenth(size) == Min(Score_0_9, Score_0_7 + 2 * size)

\* min(0.9, 0.7 + size / 20.0), size in tenths of a point.
FontScore(size) == Min(Score_0_9, Score_0_7 + size)

\* One bucket more than sorted_sizes[:3] takes.
FontBucketsFour == 3 + 1

FontBuckets == 3

RECURSIVE FontScan(_, _)
\* The loop over sorted_sizes[:3]: the result of the first bucket that has a
\* likely title, the no-title result when none has.
FontScan(cs, sizes) ==
    IF sizes = <<>>
    THEN TitleExtractionResult(NoTitle, "font_analysis", 0,
                               <<"No suitable title found via font analysis">>, <<>>)
    ELSE LET size == Head(sizes)
             bucket == SelectSeq(cs, LAMBDA c : c.size = size)
             ys == SortedDesc({Round1(bucket[i].y0) : i \in 1..Len(bucket)})
             hit == FirstTitleLine(bucket, ys)
         IN  IF hit # <<>>
             THEN LET t == FontLineText(bucket, hit[1])
                  IN  TitleExtractionResult(Some(t), "font_analysis", FontScore(size),
                                            <<"Found via font analysis (size: {})", size>>,
                                            Prefix(t, SampleChars))
             ELSE FontScan(cs, Tail(sizes))

\* page.chars either raises inside the try block (page.raises) or is a list.
extract_title_from_chars(page) ==
    IF page.raises
    THEN TitleExtractionResult(NoTitle, "font_analysis", 0,
                               <<"Font analysis failed: {}">>, <<>>)
    ELSE LET cs == page.list
             font_sizes == {z \in {cs[i].size : i \in 1..Len(cs)} : z > 0}
         IN  IF cs = <<>> THEN PyNone
             ELSE IF font_sizes = {} THEN PyNone
             ELSE FontScan(cs, Prefix(SortedDesc(font_sizes), FontBuckets))

-----------------------------------------------------------------------------
(* extract_title_from_positioned_text                                      *)

\* page.width and page.height, in hundredths of a point.
page_width == 60000
page_height == 80000

\* w['top'] >= page_height * 0.7
InTopRegion(w) == 10 * w.top >= 7 * page_height

PosLineWords(top_words, y) ==
    SortByX0(SelectSeq(top_words, LAMBDA w : Round1(w.top) = y))

PosLineText(top_words, y) == Strip(JoinTexts(PosLineWords(top_words, y), <<" ">>))

Abs(n) == IF n < 0 THEN -n ELSE n

\* abs(line_center - page_center) <= page_width * 0.25, all of it times 4.
IsCentered(line_words) ==
    LET line_start == CHOOSE a \in {line_words[i].x0 : i \in 1..Len(line_words)} :
                          \A i \in 1..Len(line_words) : a <= line_words[i].x0
        line_end == CHOOSE b \in {line_words[i].x1 : i \in 1..Len(line_words)} :
                          \A i \in 1..Len(line_words) : b >= line_words[i].x1
        line_width == line_end - line_start
    IN  Abs(4 * line_start + 2 * line_width - 2 * page_width) <= page_width

RECURSIVE FirstUncentered(_, _)
\* The first loop without the test of the line's centre.
FirstUncentered(top_words, ys) ==
    IF ys = <<>> THEN <<>>
    ELSE LET t == PosLineText(top_words, Head(ys))
         IN  IF t # <<>> /\ is_likely_title(t) THEN <<Head(ys)>>
             ELSE FirstUncentered(top_words, Tail(ys))

RECURSIVE FirstCentered(_, _)
\* First loop: the first y whose line is a likely title and centered.
FirstCentered(top_words, ys) ==
    IF ys = <<>> THEN <<>>
    ELSE LET t == PosLineText(top_words, Head(ys))
         IN  IF t # <<>> /\ is_likely_title(t) /\ IsCentered(PosLineWords(top_words, Head(ys)))
             THEN <<Head(ys)>>
             ELSE FirstCentered(top_words, Tail(ys))

RECURSIVE FirstLikely(_, _)
\* Second loop: the first y whose line is a likely title.
FirstLikely(top_words, ys) ==
    IF ys = <<>> THEN <<>>
    ELSE LET t == PosLineText(top_words, Head(ys))
         IN  IF t # <<>> /\ is_likely_title(t) THEN <<Head(ys)>>
             ELSE FirstLikely(top_words, Tail(ys))

\* page.extract_words() either raises inside the try block or is a list.
extract_title_from_positioned_text(page) ==
    IF page.raises
    THEN TitleExtractionResult(NoTitle, "position_analysis", 0,
                               <<"Position analysis failed: {}">>, <<>>)
    ELSE LET ws == page.list
             top_words == SelectSeq(ws, InTopRegion)
             ys == SortedDesc({Round1(top_words[i].top) : i \in 1..Len(top_words)})
             centered == FirstCentered(top_words, ys)
             likely == FirstLikely(top_words, ys)
         IN  IF ws = <<>> THEN PyNone
             ELSE IF top_words = <<>> THEN PyNone
             ELSE IF centered # <<>>
             THEN LET t == PosLineText(top_words, centered[1])
                  IN  TitleExtractionResult(Some(t), "position_analysis_centered",
                                            Score_0_8,
                                            <<"Centered text in top region (y: {})",
                                              centered[1]>>,
                                            Prefix(t, SampleChars))
             ELSE IF likely # <<>>
             THEN LET t == PosLineText(top_words, likely[1])
                  IN  TitleExtractionResult(Some(t), "position_analysis_top",
                                            Score_0_6,
                                            <<"Top region text (y: {})", likely[1]>>,
                                            Prefix(t, SampleChars))
             ELSE TitleExtractionResult(NoTitle, "position_analysis", 0,
                                        <<"No suitable title found via position analysis">>,
                                        <<>>)

-----------------------------------------------------------------------------
(* extract_title_fallback                                                  *)

RECURSIVE SplitLines(_)
\* text.split("\n")
SplitLines(s) ==
    LET breaks == {i \in 1..Len(s) : s[i] = "\n"}
        n == IF breaks = {} THEN Len(s) + 1 ELSE SetMin(breaks)
    IN  IF n > Len(s) THEN <<s>>
        ELSE <<SubSeq(s, 1, n - 1)>> \o SplitLines(SubSeq(s, n + 1, Len(s)))

RECURSIVE StripAll(_)
StripAll(ls) == IF ls = <<>> THEN <<>> ELSE <<Strip(Head(ls))>> \o StripAll(Tail(ls))

\* The lines without the filter `if line.strip()`.
NonEmptyLinesUnfiltered(s) == StripAll(SplitLines(s))

\* [line.strip() for line in text.split("\n") if line.strip()]
NonEmptyLines(s) == SelectSeq(StripAll(SplitLines(s)), LAMBDA l : l # <<>>)

FallbackLines == 10
TruncateAt == 100
Ellipsis == <<".", ".", ".">>

\* line[:100] + "..." when the line has more than 100 characters.
Truncate(line) ==
    IF Len(line) > TruncateAt THEN Prefix(line, TruncateAt) \o Ellipsis ELSE line

\* The score without the floor of 0.1.
FallbackScoreNoFloor(i) == Score_0_5 - i * Score_0_05

\* max(0.1, 0.5 - (i * 0.05)), i counted from 0.
FallbackScore(i) == Max(Score_0_1, Score_0_5 - i * Score_0_05)

RECURSIVE FirstLikelyIndex(_, _)
\* The first index from i on, counted from 1, of a likely title in lines.
FirstLikelyIndex(lines, i) ==
    IF i > Len(lines) THEN 0
    ELSE IF is_likely_title(lines[i]) THEN i
    ELSE FirstLikelyIndex(lines, i + 1)

\* Another spelling of the method of the result without text.
FallbackNoTextMethodMistyped == "fallback_none"

\* The method of the result for a text without a non-empty line.
FallbackNoTextMethod == "fallback"

extract_title_fallback(s) ==
    LET lines == NonEmptyLines(s)
        k == FirstLikelyIndex(Prefix(lines, FallbackLines), 1)
    IN  IF k > 0
        THEN LET line == Truncate(lines[k])
             IN  TitleExtractionResult(Some(line), "fallback_validated",
                                       FallbackScore(k - 1),
                                       <<"Validated title from line {}", k>>,
                                       Prefix(line, SampleChars))
        ELSE IF lines # <<>>
        THEN LET title == Truncate(lines[1])
             IN  TitleExtractionResult(Some(title), "fallback_first_line", Score_0_1,
                                       <<"Used first line as last resort">>,
                                       Prefix(title, SampleChars))
        ELSE TitleExtractionResult(NoTitle, FallbackNoTextMethod, 0,
                                   <<"No text found for fallback extraction">>, <<>>)

-----------------------------------------------------------------------------
(* extract_title                                                           *)

NotReturned == [kind |-> "NotReturned"]

RECURSIVE MaxByScoreLast(_)
\* The last of the highest-scored instead of the first.
MaxByScoreLast(rs) ==
    IF Len(rs) = 1 THEN rs[1]
    ELSE LET best == MaxByScoreLast(SubSeq(rs, 1, Len(rs) - 1))
         IN  IF rs[Len(rs)].score >= best.score THEN rs[Len(rs)] ELSE best

RECURSIVE MaxByScore(_)
\* max(results, key=lambda r: r.score): the first of the highest-scored.
MaxByScore(rs) ==
    IF Len(rs) = 1 THEN rs[1]
    ELSE LET best == MaxByScore(SubSeq(rs, 1, Len(rs) - 1))
         IN  IF rs[Len(rs)].score > best.score THEN rs[Len(rs)] ELSE best

\* What follows a stage's call: reading .title of None raises AttributeError,
\* a result with a title is returned, otherwise the next stage is tried.
AfterStage(r, next) ==
    IF ~IsResult(r) THEN pc' = "Raised" /\ UNCHANGED ret
    ELSE IF HasTitle(r) THEN pc' = "Done" /\ ret' = r
    ELSE pc' = next /\ UNCHANGED ret

\* Method 1 without `return result1`: the next stage runs although a title was found.
TryFontNoReturn ==
    /\ pc = "TryFont"
    /\ LET result1 == extract_title_from_chars(chars)
       IN  /\ results' = Append(results, result1)
           /\ calls' = Append(calls, "font")
           /\ IF ~IsResult(result1) THEN pc' = "Raised" ELSE pc' = "TryPosition"
           /\ UNCHANGED ret
    /\ UNCHANGED <<chars, words, text, f_in, f_out, f_again, f_pc, t_in, t_out, t_pc>>
    /\ UNCHANGED batch_vars

\* Method 1: font size analysis.
TryFont ==
    /\ pc = "TryFont"
    /\ LET result1 == extract_title_from_chars(chars)
       IN  /\ results' = Append(results, result1)
           /\ calls' = Append(calls, "font")
           /\ AfterStage(result1, "TryPosition")
    /\ UNCHANGED <<chars, words, text, f_in, f_out, f_again, f_pc, t_in, t_out, t_pc>>
    /\ UNCHANGED batch_vars

\* Method 2: position analysis.
TryPosition ==
    /\ pc = "TryPosition"
    /\ LET result2 == extract_title_from_positioned_text(words)
       IN  /\ results' = Append(results, result2)
           /\ calls' = Append(calls, "position")
           /\ AfterStage(result2, "TryFallback")
    /\ UNCHANGED <<chars, words, text, f_in, f_out, f_again, f_pc, t_in, t_out, t_pc>>
    /\ UNCHANGED batch_vars

\* Method 3: first-line fallback, then the best of the three when it has no
\* title either.
TryFallback ==
    /\ pc = "TryFallback"
    /\ LET result3 == extract_title_fallback(text)
           all == Append(results, result3)
       IN  /\ results' = all
           /\ calls' = Append(calls, "fallback")
           /\ pc' = "Done"
           /\ ret' = IF HasTitle(result3) THEN result3 ELSE MaxByScore(all)
    /\ UNCHANGED <<chars, words, text, f_in, f_out, f_again, f_pc, t_in, t_out, t_pc>>
    /\ UNCHANGED batch_vars

-----------------------------------------------------------------------------
(* The pages and texts extract_title is run on                             *)

LineTitle == <<"T","h","e"," ","B","i","g"," ","C","a","t">>
LineMarker == <<"P","a","g","e"," ","3">>

\* s * n
Repeat(s, n) == [i \in 1..(n * Len(s)) |-> s[((i - 1) % Len(s)) + 1]]

\* A likely title of 103 characters, and a line of 203 characters.
LineLong == Strip(Repeat(<<"a","b","c"," ">>, 26))
LineTooLong == Strip(Repeat(<<"a","b","c"," ">>, 51))

\* The glyphs of one line of text: one glyph per character, left to right
\* from x, all of one size and at one height.
GlyphRun(line, size, y, x) ==
    [i \in 1..Len(line) |->
        [text |-> <<line[i]>>, size |-> size, y0 |-> y, x0 |-> x + 600 * i]]

\* Font sizes in tenths of a point; 0 is the size of a glyph without one.
GlyphSizes == {0, 10, 20, 100}

GlyphRuns == {GlyphRun(l, s, 70012, 7200) : l \in {LineTitle, LineMarker}, s \in GlyphSizes}

MaxGlyphRuns == 1

RECURSIVE ListsOfRuns(_, _)
\* The lists made of at most n of the runs.
ListsOfRuns(runs, n) ==
    IF n = 0 THEN {<<>>}
    ELSE LET shorter == ListsOfRuns(runs, n - 1)
         IN  shorter \cup {p \o r : p \in shorter, r \in runs}

Read(list) == [raises |-> FALSE, list |-> list]
ReadFails == [raises |-> TRUE, list |-> <<>>]

PageChars == {Read(l) : l \in ListsOfRuns(GlyphRuns, MaxGlyphRuns)} \cup {ReadFails}

RECURSIVE WordRun(_, _, _)
\* The words of one line: every word 600 wide per character, 600 apart.
WordRun(tokens, top, x) ==
    IF tokens = <<>> THEN <<>>
    ELSE LET w == Head(tokens)
         IN  <<[text |-> w, x0 |-> x, x1 |-> x + 600 * Len(w), top |-> top]>>
             \o WordRun(Tail(tokens), top, x + 600 * Len(w) + 600)

TokensTitle == << <<"T","h","e">>, <<"B","i","g">>, <<"C","a","t">> >>
TokensMarker == << <<"P","a","g","e">>, <<"3">> >>

\* Where a line of words is put: in the top region and centred, in the top
\* region at the left edge, and below the top region.
WordPlaces == {[top |-> 60004, x |-> 27000], [top |-> 56000, x |-> 0],
               [top |-> 10000, x |-> 27000]}

WordRuns == {WordRun(t, p.top, p.x) : t \in {TokensTitle, TokensMarker}, p \in WordPlaces}

MaxWordRuns == 1

PageWords == {Read(l) : l \in ListsOfRuns(WordRuns, MaxWordRuns)} \cup {ReadFails}

TextLines == {LineTitle, LineMarker, LineLong, LineTooLong, <<" ", "\r">>}

MaxTextLines == 1

RECURSIVE TextsOfLines(_)
\* The texts of at most n lines, with a newline between two lines.
TextsOfLines(n) ==
    IF n = 0 THEN {<<>>}
    ELSE LET shorter == TextsOfLines(n - 1)
         IN  shorter \cup {IF p = <<>> THEN l ELSE l \o <<"\n">> \o p :
                              l \in TextLines, p \in shorter}

RawTexts == TextsOfLines(MaxTextLines)

FormatIdle == f_in = <<>> /\ f_out = <<>> /\ f_again = <<>> /\ f_pc = "idle"
TitleIdle == t_in = <<>> /\ t_out = FALSE /\ t_pc = "idle"

Init ==
    /\ chars \in PageChars
    /\ words \in PageWords
    /\ text \in RawTexts
    /\ pc = "TryFont"
    /\ results = <<>>
    /\ ret = NotReturned
    /\ calls = <<>>
    /\ FormatIdle
    /\ TitleIdle
    /\ BatchIdle

Next == TryFont \/ TryPosition \/ TryFallback

Spec == Init /\ [][Next]_vars

-----------------------------------------------------------------------------
(* format_filename on its own: the texts it is applied to                  *)

FormatChars == {"a", "B", "7", " ", "\t", "_", "-", "e_acute", "KELVIN", "I_DOT", "NBSP"}

MaxFormatLen == 3

RECURSIVE SeqsUpTo(_, _)
\* The sequences of at most n elements of S.
SeqsUpTo(S, n) ==
    IF n = 0 THEN {<<>>}
    ELSE LET shorter == SeqsUpTo(S, n - 1)
         IN  shorter \cup {Append(p, c) : p \in shorter, c \in S}

FormatInputs == SeqsUpTo(FormatChars, MaxFormatLen)

ExtractIdle ==
    /\ chars = Read(<<>>) /\ words = Read(<<>>) /\ text = <<>>
    /\ pc = "idle" /\ results = <<>> /\ ret = NotReturned /\ calls = <<>>

InitFormat ==
    /\ f_in \in FormatInputs
    /\ f_out = <<>>
    /\ f_again = <<>>
    /\ f_pc = "start"
    /\ ExtractIdle
    /\ TitleIdle
    /\ BatchIdle

\* format_filename(text)
Format ==
    /\ f_pc = "start"
    /\ f_out' = format_filename(f_in)
    /\ f_pc' = "formatted"
    /\ UNCHANGED <<chars, words, text, pc, results, ret, calls, f_in, f_again,
                   t_in, t_out, t_pc>>
    /\ UNCHANGED batch_vars

\* format_filename applied to its own output without the ".pdf".
FormatAgain ==
    /\ f_pc = "formatted"
    /\ f_again' = format_filename(Desuffix(f_out))
    /\ f_pc' = "done"
    /\ UNCHANGED <<chars, words, text, pc, results, ret, calls, f_in, f_out,
                   t_in, t_out, t_pc>>
    /\ UNCHANGED batch_vars

NextFormat == Format \/ FormatAgain

SpecFormat == InitFormat /\ [][NextFormat]_vars

-----------------------------------------------------------------------------
(* is_likely_title on its own: the texts it is applied to                  *)

Ex_Page5 == <<"P","a","g","e"," ","5">>
Ex_Chapter2 == <<"C","h","a","p","t","e","r"," ","2">>
Ex_Date == <<"1","2","/","3","1","/","2","0","2","3">>
Ex_Url == <<"h","t","t","p","s",":","/","/","e","x","a","m","p","l","e",".","c","o","m">>
Ex_Abstract == <<"A","b","s","t","r","a","c","t">>
Ex_Relativity ==
    <<"T","h","e"," ","T","h","e","o","r","y"," ","o","f"," ",
      "R","e","l","a","t","i","v","i","t","y"," ","E","x","p","l","a","i","n","e","d">>
Ex_Quarterly ==
    <<"Q","u","a","r","t","e","r","l","y"," ","F","i","n","a","n","c","i","a","l"," ",
      "R","e","p","o","r","t"," ","2","0","2","4">>
Ex_Email == <<"b","o","b","@","s","i","t","e",".","o","r","g">>

\* The pieces the other texts are made of.
TitlePieces ==
    {<<"T","h","e"," ">>, <<"P","a","g","e"," ">>, <<"5"," ">>, <<"5">>, <<"o","f"," ">>,
     <<"s","e","c","t","i","o","n","\t">>, Ex_Date \o <<" ">>, <<"w","w","w",".">>,
     Ex_Abstract \o <<" ">>, Ex_Email \o <<" ">>}

MaxTitlePieces == 3

RECURSIVE Concatenations(_, _)
\* The texts made of at most n of the pieces.
Concatenations(pieces, n) ==
    IF n = 0 THEN {<<>>}
    ELSE LET shorter == Concatenations(pieces, n - 1)
         IN  shorter \cup {p \o c : p \in shorter, c \in pieces}

TitleInputs ==
    Concatenations(TitlePieces, MaxTitlePieces)
        \cup {Ex_Page5, Ex_Chapter2, Ex_Date, Ex_Url, Ex_Abstract, Ex_Relativity,
              Ex_Quarterly, Ex_Email, LineTitle, LineMarker, LineLong, LineTooLong,
              <<" ">> \o Ex_Page5 \o <<" ">> \o LineTitle,
              <<"I_DOT", " ", "ALEF", " ", "E_ACUTE">>,
              <<"ARABIC_5", "/", "5", "/", "5", "5", " ">> \o LineTitle}

InitTitle ==
    /\ t_in \in TitleInputs
    /\ t_out = FALSE
    /\ t_pc = "start"
    /\ ExtractIdle
    /\ FormatIdle
    /\ BatchIdle

\* is_likely_title(text)
Classify ==
    /\ t_pc = "start"
    /\ t_out' = is_likely_title(t_in)
    /\ t_pc' = "done"
    /\ UNCHANGED <<chars, words, text, pc, results, ret, calls,
                   f_in, f_out, f_again, f_pc, t_in>>
    /\ UNCHANGED batch_vars

NextTitle == Classify

SpecTitle == InitTitle /\ [][NextTitle]_vars

-----------------------------------------------------------------------------
(* Properties                                                              *)

\* The results the extractors have produced so far.
Produced == {results[i] : i \in {j \in 1..Len(results) : IsResult(results[j])}}

Returned == pc = "Done"
Finished == pc \in {"Done", "Raised"}

\* The page has no glyph with a size above 0 (none at all, for one).
NoUsableGlyphs ==
    ~chars.raises /\ \A i \in 1..Len(chars.list) : chars.list[i].size <= 0

\* The page has no word.
NoUsableWords == ~words.raises /\ words.list = <<>>

\* C1: extract_title returns a TitleExtractionResult for every page and text
\* and never raises; on a page without usable glyphs or without words the
\* font and the positional stage each yield a result record with the title
\* absent and score 0.
C1_AlwaysReturns ==
    /\ pc # "Raised"
    /\ \A i \in 1..Len(results) : IsResult(results[i])
    /\ (Len(results) >= 1 /\ NoUsableGlyphs) =>
           (IsResult(results[1]) /\ results[1].title = NoTitle /\ results[1].score = 0)
    /\ (Len(results) >= 2 /\ NoUsableWords) =>
           (IsResult(results[2]) /\ results[2].title = NoTitle /\ results[2].score = 0)

FontFindsTitle ==
    LET r == extract_title_from_chars(chars) IN IsResult(r) /\ HasTitle(r)

\* C2: the stages run in the order font, positional, fallback, each only
\* after the one before it produced a result without a title; a title found
\* by the font stage is returned whatever the positional stage would have
\* scored; extract_title is done after at most three stage calls.
C2_StageOrder ==
    /\ Len(calls) <= 3
    /\ calls = SubSeq(<<"font", "position", "fallback">>, 1, Len(calls))
    /\ Len(calls) >= 2 => (IsResult(results[1]) /\ ~HasTitle(results[1]))
    /\ Len(calls) >= 3 => (IsResult(results[2]) /\ ~HasTitle(results[2]))
    /\ (Returned /\ FontFindsTitle) =>
           (calls = <<"font">> /\ ret = extract_title_from_chars(chars))
    /\ Returned => (HasTitle(ret) \/ Len(calls) = 3)

\* A title found by the font stage was returned although the positional
\* stage has a higher-scored title for the page.
C2_Witness ==
    /\ Returned
    /\ ret.method = "font_analysis"
    /\ HasTitle(ret)
    /\ LET r == extract_title_from_positioned_text(words)
       IN  IsResult(r) /\ HasTitle(r) /\ r.score > ret.score

LastAttemptedMethods == {"fallback", "fallback_validated", "fallback_first_line"}

\* C3: for a page without usable glyphs and without words and the raw text
\* "Page 3", extract_title returns a result with the title absent, score 0
\* and the method of the last stage attempted.
C3_NullResultForPageMarker ==
    (Finished /\ NoUsableGlyphs /\ NoUsableWords /\ text = LineMarker) =>
        /\ Returned
        /\ ret.title = NoTitle
        /\ ret.score = 0
        /\ ret.method \in LastAttemptedMethods

\* ^[a-z0-9_]*\.pdf$
MatchesFilenamePattern(n) ==
    /\ Len(n) >= 4
    /\ SubSeq(n, Len(n) - 3, Len(n)) = PdfSuffix
    /\ \A i \in 1..(Len(n) - 4) : n[i] \in LowerAscii \cup AsciiDigits \cup {"_"}

\* C4: format_filename returns, for every text, lowercase ASCII letters,
\* digits and underscores followed by ".pdf".
C4_FilenamePattern ==
    /\ f_pc \in {"formatted", "done"} => MatchesFilenamePattern(f_out)
    /\ f_pc = "done" => MatchesFilenamePattern(f_again)

\* A text with an uppercase letter, a non-ASCII letter and punctuation has
\* been formatted.
C4_Witness ==
    /\ f_pc = "formatted"
    /\ \E i, j, k \in 1..Len(f_in) :
           f_in[i] = "B" /\ f_in[j] \in {"KELVIN", "e_acute", "I_DOT"} /\ f_in[k] = "-"
    /\ Len(f_out) > 4

\* C5 as stated: formatting the output of format_filename, without its
\* ".pdf", gives that output again.
C5_Idempotent == f_pc = "done" => f_again = f_out

WithoutUnderscores(n) == SelectSeq(n, LAMBDA c : c # "_")

\* C5 as amended: formatting the output of format_filename, without its
\* ".pdf", gives that output with its underscores removed, which is the
\* output itself exactly when it has no underscore.
C5_IdempotentUpToUnderscores ==
    f_pc = "done" =>
        /\ f_again = WithoutUnderscores(f_out)
        /\ (f_again = f_out) <=> (\A i \in 1..Len(f_out) : f_out[i] # "_")

\* A name with an underscore has been formatted again and came out different.
C5_Witness ==
    /\ f_pc = "done"
    /\ \E i \in 1..Len(f_out) : f_out[i] = "_"
    /\ f_again # f_out

\* The text starts with word, at least one whitespace character and a digit.
C6_LeadingWordNumber(s, word) ==
    \E j \in (Len(word) + 2)..Len(s) :
        /\ SubSeq(s, 1, Len(word)) = word
        /\ \A k \in (Len(word) + 1)..(j - 1) : IsSpace(s[k])
        /\ IsDigit(s[j])

\* A page marker: "page N", a bare integer, or "N of M".
C6_PageMarker(s) ==
    \/ C6_LeadingWordNumber(s, W_page)
    \/ (s # <<>> /\ \A i \in 1..Len(s) : IsDigit(s[i]))
    \/ \E a \in 1..Len(s) : \E b \in (a + 1)..Len(s) : \E c \in (b + 2)..Len(s) :
           /\ \A i \in 1..a : IsDigit(s[i])
           /\ \A i \in (a + 1)..(b - 1) : IsSpace(s[i])
           /\ s[b] = "o" /\ s[b + 1] = "f"
           /\ \A i \in (b + 2)..(c - 1) : IsSpace(s[i])
           /\ IsDigit(s[c])

C6_ChapterOrSectionMarker(s) ==
    C6_LeadingWordNumber(s, W_chapter) \/ C6_LeadingWordNumber(s, W_section)

\* A date token: one or two digits, - or /, one or two digits, - or /, and
\* at least two digits.
C6_DateToken(s) ==
    \E a \in {1, 2} : \E b \in {1, 2} :
        /\ Len(s) >= a + b + 4
        /\ \A i \in (1..a) \cup ((a + 2)..(a + b + 1)) \cup ((a + b + 3)..(a + b + 4)) :
               IsDigit(s[i])
        /\ s[a + 1] \in {"-", "/"}
        /\ s[a + b + 2] \in {"-", "/"}

\* An email address: letters, @, letters, a dot and a letter.
C6_Email(s) ==
    \E a \in 1..Len(s) : \E b \in (a + 2)..Len(s) :
        /\ Len(s) >= b + 2
        /\ \A i \in (1..a) \cup ((a + 2)..b) \cup {b + 2} : s[i] \in LowerAscii
        /\ s[a + 1] = "@"
        /\ s[b + 1] = "."

C6_Url(s) ==
    \E lead \in {<<"h","t","t","p",":","/","/">>, <<"h","t","t","p","s",":","/","/">>,
                 <<"w","w","w",".">>} :
        Len(s) >= Len(lead) /\ \A i \in 1..Len(lead) : s[i] = lead[i]

C6_Heading(s) ==
    s \in {W_abstract, W_introduction, W_conclusion, W_references, W_bibliography}

\* The words of t, each named by the position of its last character.
C6_Words(t) ==
    {b \in 1..Len(t) : ~IsSpace(t[b]) /\ (b = Len(t) \/ IsSpace(t[b + 1]))}

C6_Letters(t) == {i \in 1..Len(t) : IsAlpha(t[i])}

\* What C6 says is rejected; the markers are looked for at the start of the
\* lowercased, trimmed text.
C6_Rejected(t) ==
    LET s == Strip(Lower(t))
    IN  \/ C6_PageMarker(s)
        \/ C6_ChapterOrSectionMarker(s)
        \/ C6_DateToken(s)
        \/ C6_Email(s)
        \/ C6_Url(s)
        \/ C6_Heading(s)
        \/ Cardinality(C6_Words(t)) < 3
        \/ Len(t) > 200
        \/ 2 * Cardinality(C6_Letters(t)) < Len(t)

\* C6: is_likely_title is false for a text that is a page, chapter or
\* section marker, a date, an email address, a URL or one of the five
\* heading words, has fewer than 3 words, more than 200 characters or less
\* than half of its characters alphabetic, and true for every other text; it
\* rejects "Page 5", "Chapter 2", "12/31/2023", "https://example.com" and
\* "Abstract" and accepts "The Theory of Relativity Explained" and "Quarterly
\* Financial Report 2024".
C6_Classifier ==
    t_pc = "done" =>
        /\ t_out = ~C6_Rejected(t_in)
        /\ t_in \in {Ex_Page5, Ex_Chapter2, Ex_Date, Ex_Url, Ex_Abstract} => t_out = FALSE
        /\ t_in \in {Ex_Relativity, Ex_Quarterly} => t_out = TRUE

\* A text of three words or more, short and alphabetic enough, has been
\* rejected for the marker it starts with.
C6_Witness ==
    /\ t_pc = "done"
    /\ t_out = FALSE
    /\ Cardinality(C6_Words(t_in)) >= 3
    /\ Len(t_in) <= 200
    /\ 2 * Cardinality(C6_Letters(t_in)) >= Len(t_in)

SpecMethods ==
    {"font_analysis", "position_analysis_centered", "position_analysis_top",
     "fallback_validated", "fallback_first_line", "ocr_failed", "error"}

\* C7 as stated: the method of every result an extractor produces or
\* extract_title returns is one of the seven of the data model.
C7_MethodInEnum ==
    /\ \A r \in Produced : r.method \in SpecMethods
    /\ Returned => ret.method \in SpecMethods

\* C7 as amended: the method is one of the seven or one of position_analysis
\* and fallback, the methods of the positional and the fallback extractor's
\* results without a title.
C7_MethodInWiderEnum ==
    /\ \A r \in Produced : r.method \in SpecMethods \cup {"position_analysis", "fallback"}
    /\ Returned => ret.method \in SpecMethods \cup {"position_analysis", "fallback"}

\* All three stages ran and the last two produced results without a title.
C7_Witness ==
    /\ Returned
    /\ Len(results) = 3
    /\ results[2].method = "position_analysis"
    /\ results[3].method = "fallback"

\* C8: the score of the result extract_title returns is in [0, 1], and it
\* is 0 exactly when the result has no title.
C8_ScoreRange ==
    Returned =>
        /\ 0 <= ret.score /\ ret.score <= 200
        /\ (ret.score = 0) <=> (ret.title = NoTitle)

\* A result with a title and the highest score there is has been returned.
C8_Witness == Returned /\ ret.title # NoTitle /\ ret.score = Score_0_9

\* C9: every result has a non-empty explanation, and its title, if it has
\* one, has a character that is not whitespace, truncated or not.
C9_NonEmptyTexts ==
    \A r \in Produced \cup (IF Returned THEN {ret} ELSE {}) :
        /\ r.explanation # <<>>
        /\ \A i \in 1..Len(r.explanation) : r.explanation[i][1] # ""
        /\ r.title # NoTitle => Inked(r.title[1]) # {}

\* The fallback extractor returned a line cut to 100 characters and "...".
C9_Witness ==
    /\ Returned
    /\ ret.method = "fallback_validated"
    /\ Len(ret.title[1]) = 103
    /\ SubSeq(ret.title[1], 101, 103) = Ellipsis

\* The sizes of the glyphs of the page, and the lines of the glyphs of one size.
C10_Sizes == {chars.list[i].size : i \in 1..Len(chars.list)}
C10_LinesOfSize(size) ==
    LET bucket == SelectSeq(chars.list, LAMBDA c : c.size = size)
    IN  {FontLineText(bucket, Round1(bucket[i].y0)) : i \in 1..Len(bucket)}

\* C10: a title the font extractor found among the glyphs of size s has
\* score min(0.9, 0.7 + s/20), which is 0.8 for size 2 and 0.9 for size 10,
\* never decreases as s grows and never exceeds 0.9.
C10_FontScore ==
    /\ \A r \in Produced :
           (r.method = "font_analysis" /\ r.title # NoTitle) =>
               LET size == r.explanation[1][2]
               IN  /\ size \in C10_Sizes /\ size > 0
                   /\ r.title[1] \in C10_LinesOfSize(size)
                   \* 0.7 + s/20 is (140 + size)/200, and 0.9 is 180/200
                   /\ r.score = IF 140 + size < 180 THEN 140 + size ELSE 180
                   /\ size = 20 => r.score = 160
                   /\ size = 100 => r.score = 180
                   /\ r.score <= 180
                   /\ \A smaller \in 1..size : FontScore(smaller) <= r.score

\* A title found among glyphs of size 2 has been returned with score 0.8.
C10_Witness ==
    /\ Returned
    /\ ret.method = "font_analysis"
    /\ ret.title # NoTitle
    /\ ret.explanation[1][2] = 20
    /\ ret.score = 160

-----------------------------------------------------------------------------
(* extract_title_fallback on its own: texts of many lines                  *)

Digits == <<"0", "1", "2", "3", "4", "5", "6", "7", "8", "9">>

\* The j-th leading line, a page marker no title is made of.
LeadLine(j) == <<"P", "a", "g", "e", " ", Digits[(j % 10) + 1]>>

BlankLine == <<" ", " ", "\r">>

MaxLeadLines == 11

RECURSIVE JoinLines(_)
\* "\n".join(lines)
JoinLines(ls) ==
    IF ls = <<>> THEN <<>>
    ELSE IF Len(ls) = 1 THEN ls[1]
    ELSE ls[1] \o <<"\n">> \o JoinLines(Tail(ls))

\* k leading lines, with a blank line before the b-th of them when b > 0.
LeadLines(k, b) ==
    LET leads == [j \in 1..k |-> LeadLine(j)]
    IN  IF b = 0 THEN leads
        ELSE SubSeq(leads, 1, b - 1) \o <<BlankLine>> \o SubSeq(leads, b, k)

\* What follows the leading lines.
FallbackTails == {<<>>, <<LineTitle>>, <<LineLong>>, <<LineTooLong, LineTitle>>}

FallbackTexts ==
    UNION {{JoinLines(LeadLines(k, b) \o t) : b \in 0..(k + 1), t \in FallbackTails} :
              k \in 0..MaxLeadLines}

InitFallback ==
    /\ text \in FallbackTexts
    /\ chars = Read(<<>>) /\ words = Read(<<>>)
    /\ pc = "Fallback"
    /\ results = <<>>
    /\ ret = NotReturned
    /\ calls = <<>>
    /\ FormatIdle
    /\ TitleIdle
    /\ BatchIdle

\* extract_title_fallback(text)
Fallback ==
    /\ pc = "Fallback"
    /\ ret' = extract_title_fallback(text)
    /\ pc' = "FallbackDone"
    /\ UNCHANGED <<chars, words, text, results, calls,
                   f_in, f_out, f_again, f_pc, t_in, t_out, t_pc>>
    /\ UNCHANGED batch_vars

NextFallback == Fallback

SpecFallback == InitFallback /\ [][NextFallback]_vars

\* The first 100 characters and an ellipsis for a line of more than 100.
C11_Cut(line) ==
    IF Len(line) > 100 THEN SubSeq(line, 1, 100) \o <<".", ".", ".">> ELSE line

\* The 0-based indices of the plausible lines among the first 10.
C11_Plausible(lines) ==
    {i \in 0..(Min(10, Len(lines)) - 1) : is_likely_title(lines[i + 1])}

\* C11: the fallback extractor returns the first plausible line among the
\* first 10 non-empty trimmed lines, at 0-based index i, with method
\* fallback_validated and score max(0.1, 0.5 - 0.05 i): 0.5 at index 0, 0.45 at
\* index 1, never below 0.1.  When none of them is plausible and there is a
\* non-empty line, it returns the very first non-empty line with method
\* fallback_first_line and score 0.1.  A returned line of more than 100
\* characters is cut to 100 characters and an ellipsis.  The title is absent,
\* with score 0, only when there is no non-empty line.
C11_Fallback ==
    pc = "FallbackDone" =>
        LET lines == NonEmptyLines(text)
            cand == C11_Plausible(lines)
        IN  /\ IsResult(ret)
            /\ cand # {} =>
                  LET i == SetMin(cand)
                  IN  /\ ret.title = Some(C11_Cut(lines[i + 1]))
                      /\ ret.method = "fallback_validated"
                      /\ ret.score = Max(20, 100 - 10 * i)
                      /\ i = 0 => ret.score = 100
                      /\ i = 1 => ret.score = 90
                      /\ ret.score >= 20
            /\ (cand = {} /\ lines # <<>>) =>
                  /\ ret.title = Some(C11_Cut(lines[1]))
                  /\ ret.method = "fallback_first_line"
                  /\ ret.score = 20
            /\ ret.title = NoTitle <=> lines = <<>>
            /\ ret.title = NoTitle => ret.score = 0

\* A plausible line of 103 characters at index 9 is returned cut, with the
\* floor score.
C11_Witness ==
    /\ pc = "FallbackDone"
    /\ ret.method = "fallback_validated"
    /\ ret.explanation[1][2] = 10
    /\ ret.score = 20
    /\ Len(ret.title[1]) = 103
    /\ Len(NonEmptyLines(text)[10]) > 100

-----------------------------------------------------------------------------
(* extract_title: the result when no stage has a title                     *)

\* C18: when the font, the positional and the fallback stage all produce a
\* result without a title, extract_title returns the one of the three with the
\* highest score, and of several with the highest score the one attempted
\* first: the font stage's when all three are tied.
C18_BestOfThree ==
    (Returned /\ ~HasTitle(ret)) =>
        /\ Len(results) = 3
        /\ \A i \in 1..3 : IsResult(results[i]) /\ ~HasTitle(results[i])
        /\ LET best == {i \in 1..3 : \A j \in 1..3 : results[j].score <= results[i].score}
           IN  /\ ret = results[SetMin(best)]
               /\ best = {1, 2, 3} => ret = results[1] /\ calls[1] = "font"

\* All three stages ran without a title and the font stage's result, which
\* differs from the two others, was returned.
C18_Witness ==
    /\ Returned
    /\ ~HasTitle(ret)
    /\ Len(results) = 3
    /\ ret = results[1]
    /\ ret # results[2]
    /\ ret # results[3]
    /\ results[3].score = ret.score

-----------------------------------------------------------------------------
(* extract_title_from_chars on its own: pages with several font sizes      *)

\* The font sizes of a page are 0 and the first NumFontSizes multiples of one
\* point, in tenths of a point.
NumFontSizes == 4
SlotSize(k) == 10 * k

\* Two heights that round to different tenths, and two that round to the same.
YHigh == 72044
YLow == 70012
YLowToo == 70008

\* The lines written in size k: two likely titles and a page marker, each
\* ending in the digit of the size.
SlotTitle(k) == LineTitle \o <<" ", Digits[k + 1]>>
SlotOther(k) == <<"A", " ", "R", "e", "d", " ", "D", "o", "g", " ", Digits[k + 1]>>
SlotMarker(k) == <<"P", "a", "g", "e", " ", Digits[k + 1]>>

\* What a page has in size k, in the order of page.chars: nothing; a title; a
\* marker; a title below a marker; a title below another title; a title whose
\* second half comes first in the list, a little lower than its first half.
SlotGlyphs(k) ==
    LET z == SlotSize(k)
    IN  {<<>>,
         GlyphRun(SlotTitle(k), z, YHigh, 7200),
         GlyphRun(SlotMarker(k), z, YHigh, 7200),
         GlyphRun(SlotTitle(k), z, YLow, 7200) \o GlyphRun(SlotMarker(k), z, YHigh, 7200),
         GlyphRun(SlotTitle(k), z, YLow, 7200) \o GlyphRun(SlotOther(k), z, YHigh, 7200),
         GlyphRun(SubSeq(SlotTitle(k), 9, 13), z, YLowToo, 12000)
             \o GlyphRun(SubSeq(SlotTitle(k), 1, 8), z, YLow, 7200)}

RECURSIVE SlotLists(_)
\* The glyph lists of the pages that use the sizes up to the k-th.
SlotLists(k) ==
    IF k = 0 THEN {<<>>, GlyphRun(SlotTitle(0), SlotSize(0), YHigh, 7200)}
    ELSE {p \o g : p \in SlotLists(k - 1), g \in SlotGlyphs(k)}

FontPages == {Read(l) : l \in SlotLists(NumFontSizes)} \cup {ReadFails}

InitFont ==
    /\ chars \in FontPages
    /\ words = Read(<<>>) /\ text = <<>>
    /\ pc = "Font"
    /\ results = <<>>
    /\ ret = NotReturned
    /\ calls = <<>>
    /\ FormatIdle
    /\ TitleIdle
    /\ BatchIdle

\* extract_title_from_chars(page)
Font ==
    /\ pc = "Font"
    /\ ret' = extract_title_from_chars(chars)
    /\ pc' = "FontDone"
    /\ UNCHANGED <<chars, words, text, results, calls,
                   f_in, f_out, f_again, f_pc, t_in, t_out, t_pc>>
    /\ UNCHANGED batch_vars

NextFont == Font

SpecFont == InitFont /\ [][NextFont]_vars

\* The glyphs of the page, its positive sizes and the three largest of them.
C19_Glyphs == chars.list
C19_Sizes == {z \in {C19_Glyphs[i].size : i \in 1..Len(C19_Glyphs)} : z > 0}
C19_Top3 == {z \in C19_Sizes : Cardinality({w \in C19_Sizes : w > z}) < 3}

\* The lines of the page: a size and a height rounded to a tenth.
C19_Lines ==
    {<<C19_Glyphs[i].size, Round1(C19_Glyphs[i].y0)>> :
        i \in {j \in 1..Len(C19_Glyphs) : C19_Glyphs[j].size > 0}}

C19_Text(l) ==
    FontLineText(SelectSeq(C19_Glyphs, LAMBDA c : c.size = l[1]), l[2])

C19_Plausible == {l \in C19_Lines : C19_Text(l) # <<>> /\ is_likely_title(C19_Text(l))}

\* l comes before m: in a larger size, or in the same size and higher.
C19_Before(l, m) == l[1] > m[1] \/ (l[1] = m[1] /\ l[2] > m[2])

\* C19: the font extractor looks at the 3 largest distinct positive sizes
\* only, largest first, and within a size at the lines from the highest
\* vertical coordinate down; it returns the first plausible line in that
\* order, so a plausible line in a larger size wins over one in a smaller size
\* wherever they are, and a plausible line whose glyphs all have the 4th
\* largest or a smaller size is never returned.
C19_FontOrder ==
    (pc = "FontDone" /\ ~chars.raises /\ IsResult(ret)) =>
        LET cand == {l \in C19_Plausible : l[1] \in C19_Top3}
        IN  /\ cand = {} => ret.title = NoTitle
            /\ cand # {} =>
                  LET first == CHOOSE l \in cand : \A m \in cand \ {l} : C19_Before(l, m)
                  IN  /\ ret.title = Some(C19_Text(first))
                      /\ ret.explanation[1][2] = first[1]
            /\ \A l \in C19_Plausible \ cand : ret.title # Some(C19_Text(l))
            /\ HasTitle(ret) => ret.explanation[1][2] \in C19_Top3

\* The page has plausible lines in four sizes; the returned one is the higher
\* of two in the largest size, and it was listed after the lower one.
C19_Witness ==
    /\ pc = "FontDone"
    /\ IsResult(ret)
    /\ Cardinality({l[1] : l \in C19_Plausible}) = 4
    /\ ret.title = Some(SlotOther(4))
    /\ <<SlotSize(4), Round1(YLow)>> \in C19_Plausible

-----------------------------------------------------------------------------
(* extract_title_from_positioned_text on its own: pages of several lines   *)

TokensOther == << <<"A">>, <<"R","e","d">>, <<"D","o","g">> >>

\* Tops inside the top region, on its edge and just outside it.
PosTops == {60004, 56000, 55990}

\* Left edges: a centred line, a line at the left margin, and the two edges
\* that put the centre of the 66 point wide title on and just past three
\* quarters of the page width.
PosLefts == {27000, 0, 41700, 41800}

PosRuns ==
    {WordRun(t, top, x) : t \in {TokensTitle, TokensOther, TokensMarker},
                          top \in PosTops, x \in PosLefts}

MaxPosRuns == 2

PosPages == {Read(l) : l \in ListsOfRuns(PosRuns, MaxPosRuns)} \cup {ReadFails}

InitPosition ==
    /\ words \in PosPages
    /\ chars = Read(<<>>) /\ text = <<>>
    /\ pc = "Position"
    /\ results = <<>>
    /\ ret = NotReturned
    /\ calls = <<>>
    /\ FormatIdle
    /\ TitleIdle
    /\ BatchIdle

\* extract_title_from_positioned_text(page)
Position ==
    /\ pc = "Position"
    /\ ret' = extract_title_from_positioned_text(words)
    /\ pc' = "PositionDone"
    /\ UNCHANGED <<chars, words, text, results, calls,
                   f_in, f_out, f_again, f_pc, t_in, t_out, t_pc>>
    /\ UNCHANGED batch_vars

NextPosition == Position

SpecPosition == InitPosition /\ [][NextPosition]_vars

\* The words with top at 70% of the page height or more, and their lines.
C20_Region == SelectSeq(words.list, LAMBDA w : 100 * w.top >= 70 * 80000)
C20_Lines == {Round1(C20_Region[i].top) : i \in 1..Len(C20_Region)}
C20_Words(y) == SelectSeq(C20_Region, LAMBDA w : Round1(w.top) = y)
C20_Text(y) == PosLineText(C20_Region, y)
C20_Plausible == {y \in C20_Lines : C20_Text(y) # <<>> /\ is_likely_title(C20_Text(y))}

\* The middle of the line is within a quarter of the page width (150 points)
\* of the middle of the page (300 points): twice the distance is compared.
C20_Centred(y) ==
    LET ws == C20_Words(y)
        left == SetMin({ws[i].x0 : i \in 1..Len(ws)})
        right == SetMax({ws[i].x1 : i \in 1..Len(ws)})
    IN  Abs(left + right - 60000) <= 30000

\* C20: the positional extractor builds its lines from the words with top at
\* 70% of the page height or more only.  It returns position_analysis_top
\* (score 0.6) only if no plausible line of that region has its horizontal
\* centre within 25% of the page width of the page centre; whenever there is
\* such a centred plausible line it is returned, first in scan order, with
\* position_analysis_centered and score 0.8, even when a plausible line that
\* is not centred comes earlier in the scan order.
C20_CentredFirst ==
    (pc = "PositionDone" /\ ~words.raises /\ IsResult(ret)) =>
        LET centred == {y \in C20_Plausible : C20_Centred(y)}
        IN  /\ centred # {} =>
                  /\ ret.title = Some(C20_Text(SetMax(centred)))
                  /\ ret.method = "position_analysis_centered"
                  /\ ret.score = 160
            /\ (centred = {} /\ C20_Plausible # {}) =>
                  /\ ret.title = Some(C20_Text(SetMax(C20_Plausible)))
                  /\ ret.method = "position_analysis_top"
                  /\ ret.score = 120
            /\ ret.method = "position_analysis_top" => centred = {}
            /\ C20_Plausible = {} => ret.title = NoTitle
            /\ HasTitle(ret) => ret.explanation[1][2] \in C20_Lines

\* A plausible line that is not centred lies above a centred plausible line,
\* and the centred one is returned.
C20_Witness ==
    /\ pc = "PositionDone"
    /\ IsResult(ret)
    /\ ret.method = "position_analysis_centered"
    /\ \E y \in C20_Plausible : ~C20_Centred(y) /\ y > ret.explanation[1][2]

-----------------------------------------------------------------------------
(* process_pdf: the PDF files and the collaborators                        *)

HebrewTitle ==
    <<"ALEF","ALEF","ALEF"," ","ALEF","ALEF"," ","ALEF","ALEF","ALEF","ALEF">>

\* A Hebrew title the translator is not reached for.
HebrewTitleOffline == HebrewTitle \o <<" ", "ALEF">>

\* A title langdetect raises on.
LineOdd == <<"O","d","d"," ","O","l","d"," ","O","w","l">>

\* What the translator answers.
TranslatedText == <<"A"," ","R","e","d"," ","D","o","g"," ","E_ACUTE","!">>

\* What OCR reads from a scanned page.
ScannedText == SlotOther(1) \o <<"\n">> \o LineMarker

\* langdetect.detect(title): "he", another language, or an exception.
DetectLang(title) ==
    IF title = LineOdd THEN "raise"
    ELSE IF \E i \in 1..Len(title) : title[i] = "ALEF" THEN "he"
    ELSE "en"

\* translator.translate(title, dest="en").text, or an exception.
Translate(title) ==
    IF title = HebrewTitleOffline THEN [raises |-> TRUE, text |-> <<>>]
    ELSE [raises |-> FALSE, text |-> TranslatedText]

\* The first page of a PDF and what the collaborators do with it:
\* pdfplumber.open (opens), page.chars, page.extract_words(), extract_text(),
\* to_image() and save() (renders), and image_to_string() of its image (ocr).
Pdf(id, opens, page_chars, page_words, page_text, renders, ocr_raises, ocr_text) ==
    [id |-> id, opens |-> opens, chars |-> page_chars, words |-> page_words,
     text |-> page_text, renders |-> renders,
     ocr |-> [raises |-> ocr_raises, text |-> ocr_text]]

TitlePage(id, line) ==
    Pdf(id, TRUE, Read(GlyphRun(line, 20, YHigh, 7200)), Read(<<>>), line,
        TRUE, FALSE, line)

\* A PDF with an English title, with a Hebrew title, with a Hebrew title the
\* translation fails for, and with a title the language detection fails for.
K_en == TitlePage("en", LineTitle)
K_he == TitlePage("he", HebrewTitle)
K_he_offline == TitlePage("he_offline", HebrewTitleOffline)
K_odd == TitlePage("odd", LineOdd)

\* A scanned page has no text; its glyph list is empty, or reading it fails
\* because the file was closed when the `with` block ended.
K_scan == Pdf("scan", TRUE, Read(<<>>), Read(<<>>), <<>>, TRUE, FALSE, LineTitle)
K_scan_closed ==
    Pdf("scan_closed", TRUE, ReadFails, ReadFails, <<>>, TRUE, FALSE, ScannedText)

\* A page with a page marker only, on which OCR reads nothing.
K_marker ==
    Pdf("marker", TRUE, Read(GlyphRun(LineMarker, 20, YHigh, 7200)),
        Read(WordRun(TokensMarker, 60004, 27000)), LineMarker, TRUE, FALSE, <<>>)

\* A scanned page image_to_string raises on, one to_image raises on, and a
\* file pdfplumber cannot open.
K_ocr_raises == Pdf("ocr_raises", TRUE, ReadFails, ReadFails, <<>>, TRUE, TRUE, <<>>)
K_no_image == Pdf("no_image", TRUE, ReadFails, ReadFails, <<>>, FALSE, FALSE, <<>>)
K_corrupt == Pdf("corrupt", FALSE, ReadFails, ReadFails, <<>>, FALSE, FALSE, <<>>)

Pdfs == {K_en, K_he, K_he_offline, K_odd, K_scan, K_scan_closed, K_marker,
         K_ocr_raises, K_no_image, K_corrupt}

\* `not text or len(text) < 10`
TooShort(t) == t = <<>> \/ Len(t) < 10

-----------------------------------------------------------------------------
(* extract_title as a function, and the end of process_pdf                 *)

ExtractRaised == [kind |-> "Raised"]

\* extract_title(page, text): the result, or the AttributeError of reading
\* .title of None.
extract_title(page_chars, page_words, t) ==
    LET result1 == extract_title_from_chars(page_chars)
        result2 == extract_title_from_positioned_text(page_words)
        result3 == extract_title_fallback(t)
    IN  IF ~IsResult(result1) THEN ExtractRaised
        ELSE IF HasTitle(result1) THEN result1
        ELSE IF ~IsResult(result2) THEN ExtractRaised
        ELSE IF HasTitle(result2) THEN result2
        ELSE IF HasTitle(result3) THEN result3
        ELSE MaxByScore(<<result1, result2, result3>>)

\* What an invocation of process_pdf ends with: the pair it returns, or an
\* exception.
NoName == <<>>
Returns(new_name, title_result) ==
    [kind |-> "returned", new_name |-> new_name, title_result |-> title_result]
Raises == [kind |-> "raised", new_name |-> NoName, title_result |-> PyNone]

OcrFailed ==
    Returns(NoName, TitleExtractionResult(NoTitle, "ocr_failed", 0, <<"OCR failed: {}">>, <<>>))

WithNote(title_result, note) ==
    [title_result EXCEPT !.explanation = Append(@, <<note>>)]

\* Lines 338-354 with a failure of detection or translation not caught: the
\* exception leaves process_pdf.
NormalizeUncaught(title_result) ==
    LET title == title_result.title[1]
        detected_lang == DetectLang(title)
    IN  IF detected_lang = "raise" THEN Raises
        ELSE IF detected_lang = "he"
        THEN IF Translate(title).raises THEN Raises
             ELSE Returns(Some(format_filename(Translate(title).text)),
                          WithNote(title_result, " | Translated from Hebrew"))
        ELSE Returns(Some(format_filename(title)), title_result)

\* Lines 338-354 with the filename of a Hebrew title made of the title itself.
NormalizeUntranslated(title_result) ==
    LET title == title_result.title[1]
        detected_lang == DetectLang(title)
    IN  IF detected_lang = "raise" \/ (detected_lang = "he" /\ Translate(title).raises)
        THEN Returns(Some(format_filename(title)),
                     WithNote(title_result, " | Translation failed: {}"))
        ELSE IF detected_lang = "he"
        THEN Returns(Some(format_filename(title)),
                     WithNote(title_result, " | Translated from Hebrew"))
        ELSE Returns(Some(format_filename(title)), title_result)

\* Lines 338-354: the language of the title is detected, a Hebrew title is
\* translated, and the filename is made of the translation, or of the title
\* when it is not Hebrew or when detection or translation raises.
Normalize(title_result) ==
    LET title == title_result.title[1]
        detected_lang == DetectLang(title)
    IN  IF detected_lang = "raise" \/ (detected_lang = "he" /\ Translate(title).raises)
        THEN Returns(Some(format_filename(title)),
                     WithNote(title_result, " | Translation failed: {}"))
        ELSE IF detected_lang = "he"
        THEN Returns(Some(format_filename(Translate(title).text)),
                     WithNote(title_result, " | Translated from Hebrew"))
        ELSE Returns(Some(format_filename(title)), title_result)

\* Lines 331-354: process_pdf from the call of extract_title on.
TitleAndName(page, t) ==
    LET title_result == extract_title(page.chars, page.words, t)
    IN  IF title_result = ExtractRaised THEN Raises
        ELSE IF ~HasTitle(title_result) THEN Returns(NoName, title_result)
        ELSE Normalize(title_result)

-----------------------------------------------------------------------------
(* The file system                                                         *)

\* A path is <<directory, file name>>; a file holds the first page of a PDF,
\* the image of one, or the rows of a log, and remembers the name of the
\* input file it was made from.
PdfFile(k, name) == [kind |-> "pdf", body |-> k, of |-> name]
ImageFile(k, name) == [kind |-> "image", body |-> k, of |-> name]
LogFile(rows) == [kind |-> "log", body |-> rows, of |-> <<>>]

Name_a == <<"a", ".", "p", "d", "f">>
Name_cat == format_filename(LineTitle)
Name_z == <<"z", ".", "p", "d", "f">>

\* The names the input files can have, as sorted() orders them.
NamePool == <<Name_a, Name_cat, Name_z>>

\* file_path.parent / "temp_ocr_image.png"
TempName == <<"temp_ocr_image", ".", "p", "n", "g">>
TempPath(dir) == <<dir, TempName>>

\* output_path / f"pdf_rename_log_{timestamp}.csv"
LogName == <<"pdf_rename_log_", "timestamp", ".", "c", "s", "v">>

Exists(path) == path \in DOMAIN fs
WriteFile(path, data) == [q \in DOMAIN fs \cup {path} |-> IF q = path THEN data ELSE fs[q]]
RemoveFile(path) == [q \in DOMAIN fs \ {path} |-> fs[q]]

unit_vars == <<chars, words, text, pc, results, ret, calls,
               f_in, f_out, f_again, f_pc, t_in, t_out, t_pc>>
main_vars == <<output_path, num_files, pdf_files, idx, log_entries,
               processed, skipped, m_pc>>

UnitIdle == ExtractIdle /\ FormatIdle /\ TitleIdle

-----------------------------------------------------------------------------
(* process_pdf, step by step                                               *)

NoPage == [id |-> "none"]

\* An invocation of process_pdf(dir / name) about to start, and none.
NewProc(dir, name) ==
    [pc |-> "open", dir |-> dir, file |-> name, page |-> NoPage, text |-> <<>>,
     image |-> <<>>, out |-> Raises]
NoProc ==
    [pc |-> "idle", dir |-> "", file |-> <<>>, page |-> NoPage, text |-> <<>>,
     image |-> <<>>, out |-> Raises]

\* The invocation ends: it returns or raises.
Ends(w, out) == proc' = [proc EXCEPT ![w].pc = "done", ![w].out = out]

\* Lines 309-313: the file is opened and the text of its first page extracted.
Open(w) ==
    /\ proc[w].pc = "open"
    /\ LET path == <<proc[w].dir, proc[w].file>>
       IN  IF ~Exists(path) THEN Ends(w, Raises)
           ELSE IF fs[path].kind # "pdf" THEN Ends(w, Raises)
           ELSE IF ~fs[path].body.opens THEN Ends(w, Raises)
           ELSE LET page == fs[path].body
                IN  proc' = [proc EXCEPT ![w].page = page, ![w].text = page.text,
                                         ![w].pc = IF TooShort(page.text) THEN "render"
                                                   ELSE "title"]
    /\ UNCHANGED <<fs, fs0>>
    /\ UNCHANGED main_vars
    /\ UNCHANGED unit_vars

\* Lines 317-319: the page is rendered and the image saved beside the PDF.
Render(w) ==
    /\ proc[w].pc = "render"
    /\ IF ~proc[w].page.renders
       THEN Ends(w, OcrFailed) /\ UNCHANGED fs
       ELSE /\ fs' = WriteFile(TempPath(proc[w].dir), ImageFile(proc[w].page, proc[w].file))
            /\ proc' = [proc EXCEPT ![w].pc = "ocr"]
    /\ UNCHANGED fs0
    /\ UNCHANGED main_vars
    /\ UNCHANGED unit_vars

\* Line 320: tesseract reads the image file at image_path.
Ocr(w) ==
    /\ proc[w].pc = "ocr"
    /\ LET image_path == TempPath(proc[w].dir)
       IN  IF ~Exists(image_path) THEN Ends(w, OcrFailed)
           ELSE IF fs[image_path].body.ocr.raises
           THEN proc' = [proc EXCEPT ![w].pc = "done", ![w].out = OcrFailed,
                                     ![w].image = <<fs[image_path].of>>]
           ELSE proc' = [proc EXCEPT ![w].text = fs[image_path].body.ocr.text,
                                     ![w].image = <<fs[image_path].of>>,
                                     ![w].pc = "unlink"]
    /\ UNCHANGED <<fs, fs0>>
    /\ UNCHANGED main_vars
    /\ UNCHANGED unit_vars

\* Line 321: the image file is removed; unlink raises when it is not there.
Unlink(w) ==
    /\ proc[w].pc = "unlink"
    /\ LET image_path == TempPath(proc[w].dir)
       IN  IF ~Exists(image_path) THEN Ends(w, OcrFailed) /\ UNCHANGED fs
           ELSE /\ fs' = RemoveFile(image_path)
                /\ proc' = [proc EXCEPT ![w].pc = "title"]
    /\ UNCHANGED fs0
    /\ UNCHANGED main_vars
    /\ UNCHANGED unit_vars

\* Lines 331-354: the title is extracted and the filename made of it.
Title(w) ==
    /\ proc[w].pc = "title"
    /\ Ends(w, TitleAndName(proc[w].page, proc[w].text))
    /\ UNCHANGED <<fs, fs0>>
    /\ UNCHANGED main_vars
    /\ UNCHANGED unit_vars

-----------------------------------------------------------------------------
(* main                                                                    *)

MaxFiles == 2

\* The row of a file process_pdf returned for, and the row of an exception.
LogRow(name, out) ==
    [original_name |-> name,
     transformed_name |-> IF out.new_name # NoName THEN out.new_name ELSE Some("SKIPPED"),
     score |-> out.title_result.score,
     method |-> out.title_result.method,
     explanation |-> out.title_result.explanation,
     original_text_sample |-> out.title_result.original_text_sample,
     status |-> IF out.new_name # NoName THEN "success" ELSE "skipped"]

ErrorRow(name) ==
    [original_name |-> name, transformed_name |-> Some("ERROR"), score |-> 0,
     method |-> "error", explanation |-> <<"{}">>, original_text_sample |-> <<>>,
     status |-> "error"]

\* The input directories main is run on: at most MaxFiles of the names, each
\* a PDF of one of the kinds.
InputDirs ==
    UNION {{[path \in {<<"in", n>> : n \in S} |-> PdfFile(f[path[2]], path[2])] :
               f \in [S -> Pdfs]} :
           S \in {T \in SUBSET {NamePool[i] : i \in 1..Len(NamePool)} :
                     Cardinality(T) <= MaxFiles}}

InitMain ==
    /\ fs \in InputDirs
    /\ fs0 = fs
    /\ proc = [w \in {1} |-> NoProc]
    /\ output_path \in {"in", "out"}
    /\ num_files \in {-1, 1}
    /\ pdf_files = <<>>
    /\ idx = 0
    /\ log_entries = <<>>
    /\ processed = 0
    /\ skipped = 0
    /\ m_pc = "start"
    /\ UnitIdle

\* Lines 379-427: the PDF files of the input directory are listed in sorted
\* order and cut to num_files; main returns 1 when there is none.
Start ==
    /\ m_pc = "start"
    /\ LET found == SelectSeq(NamePool, LAMBDA n : Exists(<<"in", n>>))
       IN  IF found = <<>>
           THEN m_pc' = "exit1" /\ UNCHANGED <<pdf_files, idx>>
           ELSE /\ pdf_files' = IF num_files # -1 THEN Prefix(found, num_files) ELSE found
                /\ idx' = 1
                /\ m_pc' = "loop"
    /\ UNCHANGED <<fs, fs0, proc, output_path, num_files, log_entries, processed, skipped>>
    /\ UNCHANGED unit_vars

\* Lines 429-431: the next file is handed to process_pdf.
Call ==
    /\ m_pc = "loop"
    /\ idx <= Len(pdf_files)
    /\ proc' = [proc EXCEPT ![1] = NewProc("in", pdf_files[idx])]
    /\ m_pc' = "processing"
    /\ UNCHANGED <<fs, fs0, output_path, num_files, pdf_files, idx, log_entries,
                   processed, skipped>>
    /\ UNCHANGED unit_vars

\* Lines 431-463, after process_pdf has returned or raised: the row is
\* appended, the file copied under its new name, and an exception of either
\* is turned into an error row when `caught`; it leaves main otherwise.
RecordWith(caught) ==
    /\ m_pc = "processing"
    /\ proc[1].pc = "done"
    /\ LET out == proc[1].out
           name == pdf_files[idx]
           old_path == <<"in", name>>
       IN  \E disk_ok \in BOOLEAN :
             IF out.kind = "raised"
             THEN /\ log_entries' = IF caught THEN Append(log_entries, ErrorRow(name))
                                    ELSE log_entries
                  /\ skipped' = IF caught THEN skipped + 1 ELSE skipped
                  /\ m_pc' = IF caught THEN "loop" ELSE "raised"
                  /\ UNCHANGED <<fs, processed>>
             ELSE IF out.new_name = NoName
             THEN /\ log_entries' = Append(log_entries, LogRow(name, out))
                  /\ skipped' = skipped + 1
                  /\ m_pc' = "loop"
                  /\ UNCHANGED <<fs, processed>>
             ELSE LET new_path == <<output_path, out.new_name[1]>>
                  IN  \* shutil.copy2 raises SameFileError, or any OSError
                      IF ~Exists(old_path) \/ new_path = old_path \/ ~disk_ok
                      THEN /\ log_entries' =
                                IF caught
                                THEN log_entries \o <<LogRow(name, out), ErrorRow(name)>>
                                ELSE Append(log_entries, LogRow(name, out))
                           /\ skipped' = IF caught THEN skipped + 1 ELSE skipped
                           /\ m_pc' = IF caught THEN "loop" ELSE "raised"
                           /\ UNCHANGED <<fs, processed>>
                      ELSE /\ log_entries' = Append(log_entries, LogRow(name, out))
                           /\ fs' = WriteFile(new_path, fs[old_path])
                           /\ processed' = processed + 1
                           /\ m_pc' = "loop"
                           /\ UNCHANGED skipped
    /\ idx' = idx + 1
    /\ proc' = [proc EXCEPT ![1] = NoProc]
    /\ UNCHANGED <<fs0, output_path, num_files, pdf_files>>
    /\ UNCHANGED unit_vars

\* The loop body without `except Exception`.
RecordUncaught == RecordWith(FALSE)

Record == RecordWith(TRUE)

\* Line 466 and write_processing_log: the rows are written to a CSV file in
\* the output directory, and main returns 0.
WriteLog ==
    /\ m_pc = "loop"
    /\ idx > Len(pdf_files)
    /\ fs' = WriteFile(<<output_path, LogName>>, LogFile(log_entries))
    /\ m_pc' = "done"
    /\ UNCHANGED <<fs0, proc, output_path, num_files, pdf_files, idx, log_entries,
                   processed, skipped>>
    /\ UNCHANGED unit_vars

NextMain ==
    \/ Start
    \/ Call
    \/ Open(1)
    \/ Render(1)
    \/ Ocr(1)
    \/ Unlink(1)
    \/ Title(1)
    \/ Record
    \/ WriteLog

SpecMain == InitMain /\ [][NextMain]_vars

-----------------------------------------------------------------------------
(* Two invocations of process_pdf at once                                  *)

Workers == {1, 2}

\* Two invocations on two files, in one directory or in two.
InitWorkers ==
    /\ \E k1 \in Pdfs, k2 \in Pdfs, dir2 \in {"in", "in2"} :
          /\ fs = [path \in {<<"in", Name_a>>, <<dir2, Name_z>>} |->
                      IF path[2] = Name_a THEN PdfFile(k1, Name_a) ELSE PdfFile(k2, Name_z)]
          /\ proc = [w \in Workers |->
                      IF w = 1 THEN NewProc("in", Name_a) ELSE NewProc(dir2, Name_z)]
    /\ fs0 = fs
    /\ output_path = "" /\ num_files = 0 /\ pdf_files = <<>> /\ idx = 0
    /\ log_entries = <<>> /\ processed = 0 /\ skipped = 0 /\ m_pc = "workers"
    /\ UnitIdle

NextWorkers ==
    \E w \in Workers : Open(w) \/ Render(w) \/ Ocr(w) \/ Unlink(w) \/ Title(w)

SpecWorkers == InitWorkers /\ [][NextWorkers]_vars

-----------------------------------------------------------------------------
(* process_pdf: the language of the title                                  *)

\* The invocation w takes the step from the call of extract_title to its end.
TitleStep(w) == proc[w].pc = "title" /\ proc'[w].pc = "done"

\* What extract_title gives the invocation w.
Extracted(w) == extract_title(proc[w].page.chars, proc[w].page.words, proc[w].text)

\* extract_title found a title for w.
FoundTitle(w) == Extracted(w) # ExtractRaised /\ HasTitle(Extracted(w))

\* Detection raises for the title of w, or it is Hebrew and translation raises.
NormalizationFails(w) ==
    LET title == Extracted(w).title[1]
    IN  \/ DetectLang(title) = "raise"
        \/ DetectLang(title) = "he" /\ Translate(title).raises

\* C12: when language detection or translation fails for a title that was
\* found, process_pdf does not raise and does not drop the title: it returns
\* the filename made of the original title, and a result whose title, score
\* and method are those extract_title gave, with a failure note appended to
\* the explanation and nothing else changed.
C12_FailureKeepsTitle ==
    [][\A w \in DOMAIN proc :
          (TitleStep(w) /\ FoundTitle(w) /\ NormalizationFails(w)) =>
              LET before == Extracted(w)
                  after == proc'[w].out
              IN  /\ after.kind = "returned"
                  /\ after.new_name = Some(format_filename(before.title[1]))
                  /\ after.title_result.title = before.title
                  /\ after.title_result.score = before.score
                  /\ after.title_result.method = before.method
                  /\ after.title_result.original_text_sample = before.original_text_sample
                  /\ after.title_result.explanation =
                        Append(before.explanation, <<" | Translation failed: {}">>)]_vars

\* An invocation has returned for a Hebrew title the translation failed for.
C12_Witness ==
    \E w \in DOMAIN proc :
        /\ proc[w].pc = "done"
        /\ proc[w].out.kind = "returned"
        /\ proc[w].out.title_result.title = Some(HebrewTitleOffline)
        /\ proc[w].out.new_name = Some(format_filename(HebrewTitleOffline))
        /\ Len(proc[w].out.title_result.explanation) = 2

\* Lowercase ASCII letters, digits, underscores and the dot only.
C13_Ascii(name) ==
    \A i \in 1..Len(name) : name[i] \in LowerAscii \cup AsciiDigits \cup {"_", "."}

\* C13: when the title is detected as Hebrew and its translation succeeds,
\* the filename process_pdf returns is format_filename of the translated
\* text, not of the original title; a translation note is appended to the
\* explanation, and the filename has ASCII characters only.
C13_TranslatedName ==
    [][\A w \in DOMAIN proc :
          (TitleStep(w) /\ FoundTitle(w) /\ ~NormalizationFails(w)
              /\ DetectLang(Extracted(w).title[1]) = "he") =>
              LET before == Extracted(w)
                  after == proc'[w].out
              IN  /\ after.kind = "returned"
                  /\ after.new_name = Some(format_filename(Translate(before.title[1]).text))
                  /\ C13_Ascii(after.new_name[1])
                  /\ after.title_result.explanation =
                        Append(before.explanation, <<" | Translated from Hebrew">>)]_vars

\* An invocation has returned the name made of the translation of a Hebrew
\* title, which is not the name made of the title.
C13_Witness ==
    \E w \in DOMAIN proc :
        /\ proc[w].pc = "done"
        /\ proc[w].out.kind = "returned"
        /\ proc[w].out.title_result.title = Some(HebrewTitle)
        /\ proc[w].out.new_name = Some(format_filename(TranslatedText))
        /\ proc[w].out.new_name # Some(format_filename(HebrewTitle))
        /\ Len(proc[w].out.title_result.explanation) = 2

-----------------------------------------------------------------------------
(* main: the batch and its log                                             *)

\* main takes the step that ends the loop body of the file at idx.
RecordStep == m_pc = "processing" /\ m_pc' # "processing"

\* process_pdf raised for the file, or its copy did not complete.
FileFailed ==
    \/ proc[1].out.kind = "raised"
    \/ proc[1].out.new_name # NoName /\ processed' = processed

\* How far main has come: the files done, and the step inside the loop body.
C14_Rank ==
    10 * idx +
    (IF m_pc \in {"done", "exit1"} THEN 9
     ELSE IF m_pc # "processing" THEN 0
     ELSE CASE proc[1].pc = "open" -> 1
            [] proc[1].pc = "render" -> 2
            [] proc[1].pc = "ocr" -> 3
            [] proc[1].pc = "unlink" -> 4
            [] proc[1].pc = "title" -> 5
            [] OTHER -> 6)

\* C14: in the loop of main a failure while one file is processed (an
\* exception of process_pdf or of the copy) does not end the batch: an error
\* row is recorded for that file, the loop goes on with the next file, every
\* file is handed to process_pdf in the order of pdf_files, and the log is
\* eventually written with a row for every file: no exception leaves main,
\* every step brings main nearer to its end, and main is at a step of the
\* loop until the log is written (or it has returned 1 for a directory
\* without a PDF).
C14_BatchGoesOn ==
    /\ [][((RecordStep /\ FileFailed) =>
              /\ m_pc' = "loop"
              /\ idx' = idx + 1
              /\ Len(log_entries') > Len(log_entries)
              /\ log_entries'[Len(log_entries')].status = "error"
              /\ log_entries'[Len(log_entries')].original_name = pdf_files[idx])
          /\ ((m_pc = "loop" /\ m_pc' = "processing") =>
                 (proc'[1].file = pdf_files[idx] /\ idx' = idx))
          /\ (m_pc # "start" => idx' \in {idx, idx + 1})
          /\ C14_Rank' > C14_Rank]_vars
    /\ [](/\ m_pc \in {"start", "loop", "processing", "done", "exit1"}
          /\ m_pc = "processing" =>
                proc[1].pc \in {"open", "render", "ocr", "unlink", "title", "done"})
    /\ [](m_pc = "done" =>
            /\ idx = Len(pdf_files) + 1
            /\ Exists(<<output_path, LogName>>)
            /\ fs[<<output_path, LogName>>] = LogFile(log_entries)
            /\ \A i \in 1..Len(pdf_files) :
                  \E j \in 1..Len(log_entries) : log_entries[j].original_name = pdf_files[i])
    /\ [](m_pc = "exit1" => pdf_files = <<>> /\ DOMAIN fs0 = {})

\* The log is written, and in it the error row of one file is followed by
\* the success row of a later file.
C14_Witness ==
    /\ m_pc = "done"
    /\ Exists(<<output_path, LogName>>)
    /\ \E i, j \in 1..Len(log_entries) :
          /\ i < j
          /\ log_entries[i].status = "error"
          /\ log_entries[j].status = "success"
          /\ log_entries[i].original_name # log_entries[j].original_name

\* C15: when main has finished, the log has exactly one row for every file
\* of pdf_files, in the order of pdf_files, each with the status success,
\* skipped or error; no file has two rows, and there is a success row only
\* for a file whose copy completed.
C15_OneRowPerFile ==
    m_pc = "done" =>
        /\ Len(log_entries) = Len(pdf_files)
        /\ \A i \in 1..Len(log_entries) :
              /\ i <= Len(pdf_files) => log_entries[i].original_name = pdf_files[i]
              /\ log_entries[i].status \in {"success", "skipped", "error"}
        /\ \A i, j \in 1..Len(log_entries) :
              log_entries[i].original_name = log_entries[j].original_name => i = j
        /\ Cardinality({i \in 1..Len(log_entries) : log_entries[i].status = "success"})
              = processed

\* C16: main destroys nothing: whatever the input and the output directory
\* (the same directory included), every file the input directory had when
\* main began is there with its name and its content when main has finished,
\* and every other PDF is the copy of one of them.
C16_OriginalsKept ==
    m_pc = "done" =>
        /\ \A path \in DOMAIN fs0 : Exists(path) /\ fs[path] = fs0[path]
        /\ \A path \in DOMAIN fs \ DOMAIN fs0 :
              fs[path].kind = "pdf" => fs[path] = fs0[<<"in", fs[path].of>>]

-----------------------------------------------------------------------------
(* process_pdf run alone, and two runs at once                             *)

\* Lines 304-354 for a file that holds the page k, run on its own.
ProcessAlone(k) ==
    IF ~k.opens THEN Raises
    ELSE IF ~TooShort(k.text) THEN TitleAndName(k, k.text)
    ELSE IF ~k.renders THEN OcrFailed
    ELSE IF k.ocr.raises THEN OcrFailed
    ELSE TitleAndName(k, k.ocr.text)

\* C17: process_pdf can be run on two different files at once without a
\* lock: under every interleaving of the two invocations (two files of one
\* directory that both take the OCR path included) each ends as it ends when
\* run alone, reads no image but the one it wrote, and leaves no image
\* behind that it would not leave alone.
C17_Isolated ==
    /\ \A w \in DOMAIN proc :
          proc[w].pc = "done" =>
              /\ proc[w].out = ProcessAlone(fs0[<<proc[w].dir, proc[w].file>>].body)
              /\ proc[w].image # <<>> => proc[w].image = <<proc[w].file>>
    /\ (\A w \in DOMAIN proc : proc[w].pc = "done") =>
          \A path \in DOMAIN fs :
              fs[path].kind = "image" => fs[path].body.ocr.raises

-----------------------------------------------------------------------------
(* main: the copies in the output directory                                *)

\* The rows of the log with the status success.
SuccessRows == {i \in 1..Len(log_entries) : log_entries[i].status = "success"}

\* C21: when main has finished, every file logged with the status success
\* has its own copy in the output directory, holding the content of that
\* file: no copy is overwritten by the copy of a later file, that is, no two
\* input files of a batch get the same output filename (titles that format
\* to the same name or to the empty name included).
C21_OwnCopy ==
    m_pc = "done" =>
        /\ \A i \in SuccessRows :
              LET new_path == <<output_path, log_entries[i].transformed_name[1]>>
              IN  /\ Exists(new_path)
                  /\ fs[new_path].kind = "pdf"
                  /\ fs[new_path].of = log_entries[i].original_name
        /\ \A i, j \in SuccessRows :
              log_entries[i].original_name # log_entries[j].original_name =>
                  log_entries[i].transformed_name # log_entries[j].transformed_name

-----------------------------------------------------------------------------
(* process_pdf: the temporary image                                        *)

\* C22: whenever process_pdf returns, with a name, without one, or with the
\* result ocr_failed, the image temp_ocr_image.png it has written beside the
\* input file is no longer there.
C22_NoImageLeft ==
    \A w \in DOMAIN proc :
        (proc[w].pc = "done" /\ proc[w].out.kind = "returned") =>
            LET image_path == TempPath(proc[w].dir)
            IN  ~(Exists(image_path) /\ fs[image_path].of = proc[w].file)

====
